---- MODULE Spec2Model ----
(***************************************************************************)
(* str-buf: StrBuf<N>, a fixed-capacity string buffer kept inside an       *)
(* array of N bytes whose first LEN_OFFSET bytes hold the length marker.   *)
(* The buffer is modelled at the level of bytes: texts are encoded to      *)
(* UTF-8, the operations work on the bytes of `inner` as src/src/lib.rs    *)
(* does, and characters are decoded from the bytes when the code decodes   *)
(* them (chars(), chars().rev(), is_char_boundary).                        *)
(***************************************************************************)
EXTENDS Integers, Sequences, FiniteSets, TLC

(***************************************************************************)
(* Bounds of the exploration.                                              *)
(***************************************************************************)
\* Longest argument text, in characters.
MaxChars == 2
\* Content lengths explored: at most MaxFill bytes from empty, or at most
\* MaxFill bytes from full.
MaxFill == 3
\* Contents near full are explored in buffers of at most MaxPad bytes.
MaxPad == 300
\* The number of successive pops a chain of pops is followed for.
MaxPops == 4

(***************************************************************************)
(* Program constants.                                                      *)
(***************************************************************************)
CAPACITY_U8 == 256
CAPACITY_U16 == 65537
\* mem::size_of::<usize>() of a 64-bit target
SIZE_OF_USIZE == 8

\* The storage sizes N explored: no marker, marker only, one-byte marker,
\* two-byte marker, word marker (tests/push.rs: SmolStr, MediumStr, BigStr),
\* the largest N of the one-byte and of the two-byte marker (CAPACITY_U8,
\* CAPACITY_U16), and the 500 of tests/panic_asserts.rs.
Sizes == {0, 1, 6, 256, 290, 500, 65537, 67000}

\* Byte orders of the target (to_ne_bytes, from_ne_bytes).
Endians == {"little", "big"}

\* Characters of the argument texts, as code points, one of each UTF-8
\* width: 'r', U+00A0 (2 bytes, whitespace), U+30ED (3 bytes),
\* U+1F600 (4 bytes).
Alphabet == {114, 160, 12525, 128512}

\* A byte of the storage that was never written (MaybeUninit::uninit()).
Uninit == -1

VARIABLES
    N,       \* the const parameter N of StrBuf<N>
    endian,  \* the byte order of the build target
    inner,   \* StrBuf::inner: the written prefix of the N bytes; the bytes
             \* behind it are uninitialized
    pc,      \* "running", or "aborted" after a panic
    last     \* the last call: its name, what it returned, whether all of
             \* its argument text was taken, whether len() changed

vars == <<N, endian, inner, pc, last>>

(***************************************************************************)
(* Sequences of bytes.                                                     *)
(***************************************************************************)
Min(a, b) == IF a < b THEN a ELSE b

\* k times the byte b
Repeat(b, k) == [i \in 1..k |-> b]

\* storage[idx] = b (idx counts from 0); the bytes between the written
\* prefix and idx stay uninitialized
WriteAt(storage, idx, b) ==
    IF idx < Len(storage)
    THEN [storage EXCEPT ![idx + 1] = b]
    ELSE storage \o Repeat(Uninit, idx - Len(storage)) \o <<b>>

\* the bytes [from, from + count) of the storage (from counts from 0)
Slice(storage, from, count) == SubSeq(storage, from + 1, from + count)

(***************************************************************************)
(* UTF-8 as core::str computes it.                                         *)
(***************************************************************************)
\* char::len_utf8
len_utf8(ch) ==
    IF ch < 128 THEN 1 ELSE IF ch < 2048 THEN 2 ELSE IF ch < 65536 THEN 3 ELSE 4

\* char::encode_utf8: the bytes of one character
encode_utf8(ch) ==
    IF ch < 128 THEN <<ch>>
    ELSE IF ch < 2048 THEN <<192 + (ch \div 64), 128 + (ch % 64)>>
    ELSE IF ch < 65536
    THEN <<224 + (ch \div 4096), 128 + ((ch \div 64) % 64), 128 + (ch % 64)>>
    ELSE <<240 + (ch \div 262144), 128 + ((ch \div 4096) % 64),
           128 + ((ch \div 64) % 64), 128 + (ch % 64)>>

\* the bytes of a text given as its characters (a &str argument)
RECURSIVE Utf8(_)
Utf8(chs) ==
    IF chs = <<>> THEN <<>>
    ELSE IF Len(chs) = 1 THEN encode_utf8(chs[1])
    ELSE LET half == Len(chs) \div 2 IN
         Utf8(SubSeq(chs, 1, half)) \o Utf8(SubSeq(chs, half + 1, Len(chs)))

\* u8::is_utf8_char_boundary: (b as i8) >= -0x40
is_utf8_char_boundary(b) == b < 128 \/ b >= 192

\* utf8_is_cont_byte
utf8_is_cont_byte(b) == b >= 128 /\ b < 192

\* str::is_char_boundary
is_char_boundary(text, index) ==
    IF index = 0 THEN TRUE
    ELSE IF index >= Len(text) THEN index = Len(text)
    ELSE is_utf8_char_boundary(text[index + 1])

\* next_code_point: the first character of the bytes and its width
next_code_point(bytes) ==
    LET x == bytes[1] IN
    IF x < 128 THEN [ch |-> x, width |-> 1]
    ELSE LET init == x % 32
             y == bytes[2] % 64 IN
         IF x < 224 THEN [ch |-> init * 64 + y, width |-> 2]
         ELSE LET y_z == y * 64 + (bytes[3] % 64) IN
              IF x < 240 THEN [ch |-> init * 4096 + y_z, width |-> 3]
              ELSE [ch |-> (init % 8) * 262144 + y_z * 64 + (bytes[4] % 64),
                    width |-> 4]

\* next_code_point_reverse: the last character of the bytes and its width
next_code_point_reverse(bytes) ==
    LET l == Len(bytes)
        w == bytes[l] IN
    IF w < 128 THEN [ch |-> w, width |-> 1]
    ELSE LET z == bytes[l - 1] IN
         IF ~utf8_is_cont_byte(z)
         THEN [ch |-> (z % 32) * 64 + (w % 64), width |-> 2]
         ELSE LET y == bytes[l - 2] IN
              IF ~utf8_is_cont_byte(y)
              THEN [ch |-> ((y % 16) * 64 + (z % 64)) * 64 + (w % 64), width |-> 3]
              ELSE LET x == bytes[l - 3] IN
                   [ch |-> (((x % 8) * 64 + (y % 64)) * 64 + (z % 64)) * 64 + (w % 64),
                    width |-> 4]

\* char::is_whitespace: the White_Space code points
is_whitespace(ch) ==
    \/ ch = 32
    \/ ch >= 9 /\ ch <= 13
    \/ ch = 133
    \/ ch = 160
    \/ ch = 5760
    \/ ch >= 8192 /\ ch <= 8202
    \/ ch = 8232
    \/ ch = 8233
    \/ ch = 8239
    \/ ch = 8287
    \/ ch = 12288

\* u8::to_ascii_lowercase
to_ascii_lowercase(b) == IF b >= 65 /\ b <= 90 THEN b + 32 ELSE b

\* u8::to_ascii_uppercase
to_ascii_uppercase(b) == IF b >= 97 /\ b <= 122 THEN b - 32 ELSE b

(***************************************************************************)
(* The length marker.                                                      *)
(***************************************************************************)
LEN_OFFSET(n) ==
    IF n = 0 THEN 0
    ELSE IF n <= CAPACITY_U8 THEN 1
    ELSE IF n <= CAPACITY_U16 THEN 2
    ELSE SIZE_OF_USIZE

CAPACITY(n) == n - LEN_OFFSET(n)

\* StrBuf::capacity()
StrBuf_capacity == CAPACITY(N)

\* capacity(desired) that compares `desired` with the thresholds of N
capacity_by_storage_thresholds(desired) ==
    IF desired = 0 THEN desired
    ELSE IF desired <= CAPACITY_U8 THEN desired + 1
    ELSE IF desired <= CAPACITY_U16 THEN desired + 2
    ELSE desired + SIZE_OF_USIZE

\* the free function capacity(desired)
capacity(desired) ==
    IF desired = 0 THEN desired
    ELSE IF desired <= 255 THEN desired + 1
    ELSE IF desired <= 65535 THEN desired + 2
    ELSE desired + SIZE_OF_USIZE

\* v.to_ne_bytes() of an integer of `width` bytes
RECURSIVE to_le_bytes(_, _)
to_le_bytes(v, width) ==
    IF width = 0 THEN <<>> ELSE <<v % 256>> \o to_le_bytes(v \div 256, width - 1)

RECURSIVE Reverse(_)
Reverse(s) == IF s = <<>> THEN <<>> ELSE Reverse(Tail(s)) \o <<Head(s)>>

to_ne_bytes(v, width) ==
    IF endian = "little" THEN to_le_bytes(v, width)
    ELSE Reverse(to_le_bytes(v, width))

RECURSIVE from_le_bytes(_)
from_le_bytes(bytes) ==
    IF bytes = <<>> THEN 0 ELSE Head(bytes) + 256 * from_le_bytes(Tail(bytes))

from_ne_bytes(bytes) ==
    IF endian = "little" THEN from_le_bytes(bytes)
    ELSE from_le_bytes(Reverse(bytes))

\* StrBuf::len
len(buf) ==
    IF N = 0 THEN 0
    ELSE IF N <= CAPACITY_U8 THEN buf[1]
    ELSE IF N <= CAPACITY_U16 THEN from_ne_bytes(Slice(buf, 0, 2))
    ELSE from_ne_bytes(Slice(buf, 0, SIZE_OF_USIZE))

\* storage[idx .. idx + bytes.len()) = bytes (idx counts from 0); the bytes
\* between the written prefix and idx stay uninitialized
WriteBytes(storage, idx, bytes) ==
    IF bytes = <<>> THEN storage
    ELSE LET before == IF idx <= Len(storage) THEN SubSeq(storage, 1, idx)
                       ELSE storage \o Repeat(Uninit, idx - Len(storage))
             after == IF idx + Len(bytes) < Len(storage)
                      THEN SubSeq(storage, idx + Len(bytes) + 1, Len(storage))
                      ELSE <<>> IN
         before \o bytes \o after

\* StrBuf::const_set_len
const_set_len(buf, length) ==
    IF N = 0 THEN buf
    ELSE IF N <= CAPACITY_U8 THEN WriteAt(buf, 0, length % 256)
    ELSE IF N <= CAPACITY_U16
    THEN LET bytes == to_ne_bytes(length % 65536, 2) IN
         WriteAt(WriteAt(buf, 0, bytes[1]), 1, bytes[2])
    ELSE WriteBytes(buf, 0, to_ne_bytes(length, SIZE_OF_USIZE))

\* set_len that stores the length as one byte whatever the marker's width
set_len_one_byte(buf, length) ==
    IF N = 0 THEN buf ELSE WriteAt(buf, 0, length % 256)

\* StrBuf::set_len
set_len(buf, length) ==
    IF N = 0 THEN buf
    ELSE IF N <= CAPACITY_U8 THEN WriteAt(buf, 0, length % 256)
    ELSE IF N <= CAPACITY_U16
    THEN LET bytes == to_ne_bytes(length % 65536, 2) IN
         WriteAt(WriteAt(buf, 0, bytes[1]), 1, bytes[2])
    ELSE WriteBytes(buf, 0, to_ne_bytes(length, SIZE_OF_USIZE))

(***************************************************************************)
(* The buffer's operations, as functions of the storage `buf`.             *)
(***************************************************************************)
\* StrBuf::from_storage
from_storage(storage) == storage

\* StrBuf::new
new == const_set_len(from_storage(<<>>), 0)

\* StrBuf::as_slice: LEN_OFFSET bytes in, len() bytes long
as_slice(buf) == Slice(buf, LEN_OFFSET(N), len(buf))

\* StrBuf::as_str: the slice, taken as UTF-8 without a check
as_str(buf) == as_slice(buf)

\* remaining() that forgets the bytes of the length marker
remaining_of_storage(buf) == N - len(buf)

\* StrBuf::remaining
remaining(buf) == StrBuf_capacity - len(buf)

\* the loop with the stores not checked against the array's bounds
IndexedStore_unchecked(storage, base, bytes) ==
    [panic |-> FALSE, buf |-> WriteBytes(storage, base, bytes)]

\* while idx < bytes.len() { storage[base + idx] = bytes[idx]; idx += 1 }
\* with each index checked against the array's N bytes: the loop panics at
\* the first idx with base + idx >= N, the bytes before it stored
IndexedStore(storage, base, bytes) ==
    LET fits == IF base >= N THEN 0 ELSE Min(Len(bytes), N - base) IN
    [panic |-> fits < Len(bytes),
     buf |-> WriteBytes(storage, base, SubSeq(bytes, 1, fits))]

\* StrBuf::from_str, in a build with or without debug assertions
from_str(text, debug_assertions) ==
    IF debug_assertions /\ ~(Len(text) <= CAPACITY(N))
    THEN [panic |-> TRUE, buf |-> <<>>]
    ELSE LET stored == IndexedStore(<<>>, LEN_OFFSET(N), text) IN
         IF stored.panic THEN stored
         ELSE [panic |-> FALSE,
               buf |-> const_set_len(from_storage(stored.buf), Len(text))]

\* from_str_checked that refuses a text of exactly capacity() bytes
from_str_checked_less(text, debug_assertions) ==
    IF Len(text) < StrBuf_capacity
    THEN LET made == from_str(text, debug_assertions) IN
         [panic |-> made.panic, ok |-> TRUE, buf |-> made.buf]
    ELSE [panic |-> FALSE, ok |-> FALSE, buf |-> <<>>]

\* StrBuf::from_str_checked
from_str_checked(text, debug_assertions) ==
    IF Len(text) <= StrBuf_capacity
    THEN LET made == from_str(text, debug_assertions) IN
         [panic |-> made.panic, ok |-> TRUE, buf |-> made.buf]
    ELSE [panic |-> FALSE, ok |-> FALSE, buf |-> <<>>]

\* StrBuf::push_str_unchecked
push_str_unchecked(buf, text) ==
    LET copied == WriteBytes(buf, LEN_OFFSET(N) + len(buf), text) IN
    set_len(copied, len(copied) + Len(text))

\* shift_by_char_boundary without its loop: no further step back
shift_by_char_boundary_once(text, size) == size

RECURSIVE shift_by_char_boundary(_, _)
\* push_str::shift_by_char_boundary
shift_by_char_boundary(text, size) ==
    IF ~is_char_boundary(text, size) THEN shift_by_char_boundary(text, size - 1)
    ELSE size

\* push_str that cuts the text at the byte limit
push_str_at_byte(buf, text) ==
    LET size == Min(Len(text), remaining(buf)) IN
    [buf |-> push_str_unchecked(buf, SubSeq(text, 1, size)), size |-> size]

\* StrBuf::push_str: the storage after the call and the count it returns
push_str(buf, text) ==
    LET size0 == Min(Len(text), remaining(buf))
        size == IF ~is_char_boundary(text, size0)
                THEN shift_by_char_boundary(text, size0 - 1)
                ELSE size0 IN
    [buf |-> push_str_unchecked(buf, SubSeq(text, 1, size)), size |-> size]

\* and_unsafe that sets the length to that of the appended bytes alone
and_unsafe_len_of_bytes(buf, bytes, debug_assertions) ==
    IF debug_assertions /\ ~(remaining(buf) >= Len(bytes))
    THEN [panic |-> TRUE, buf |-> buf]
    ELSE LET cursor == len(buf)
             stored == IndexedStore(buf, LEN_OFFSET(N) + cursor, bytes) IN
         IF stored.panic THEN stored
         ELSE [panic |-> FALSE,
               buf |-> const_set_len(stored.buf, Len(bytes))]

\* StrBuf::and_unsafe, in a build with or without debug assertions
and_unsafe(buf, bytes, debug_assertions) ==
    IF debug_assertions /\ ~(remaining(buf) >= Len(bytes))
    THEN [panic |-> TRUE, buf |-> buf]
    ELSE LET cursor == len(buf)
             stored == IndexedStore(buf, LEN_OFFSET(N) + cursor, bytes) IN
         IF stored.panic THEN stored
         ELSE [panic |-> FALSE,
               buf |-> const_set_len(stored.buf, cursor + Len(bytes))]

\* StrBuf::and
and(buf, text, debug_assertions) == and_unsafe(buf, text, debug_assertions)

\* clear that zeroes the first byte of the marker only
clear_first_byte(buf) == IF N = 0 THEN buf ELSE WriteAt(buf, 0, 0)

\* StrBuf::clear
clear(buf) == set_len(buf, 0)

\* StrBuf::empty
empty(buf) == const_set_len(buf, 0)

\* loop { if idx >= len { break } inner[idx] = inner[idx].to_ascii_lowercase(); idx += 1 }
\* from idx = start: every inner[idx] with start <= idx < end is replaced,
\* each from its own old value (idx counts from 0)
into_ascii_lowercase_loop(buf, start, end) ==
    SubSeq([i \in 1..Len(buf) |->
               IF i - 1 >= start /\ i - 1 < end THEN to_ascii_lowercase(buf[i])
               ELSE buf[i]], 1, Len(buf))

\* StrBuf::into_ascii_lowercase
into_ascii_lowercase(buf) ==
    into_ascii_lowercase_loop(buf, LEN_OFFSET(N), LEN_OFFSET(N) + len(buf))

\* loop { if idx >= len { break } inner[idx] = inner[idx].to_ascii_uppercase(); idx += 1 }
\* from idx = start: every inner[idx] with start <= idx < end is replaced,
\* each from its own old value (idx counts from 0)
into_ascii_uppercase_loop(buf, start, end) ==
    SubSeq([i \in 1..Len(buf) |->
               IF i - 1 >= start /\ i - 1 < end THEN to_ascii_uppercase(buf[i])
               ELSE buf[i]], 1, Len(buf))

\* into_ascii_uppercase whose loop ends at len(), the marker's bytes forgotten
into_ascii_uppercase_short(buf) ==
    into_ascii_uppercase_loop(buf, LEN_OFFSET(N), len(buf))

\* StrBuf::into_ascii_uppercase
into_ascii_uppercase(buf) ==
    into_ascii_uppercase_loop(buf, LEN_OFFSET(N), LEN_OFFSET(N) + len(buf))

\* StrBuf::as_mut_slice, written through: the slice's bytes become `bytes`
as_mut_slice(buf, bytes) == WriteBytes(buf, LEN_OFFSET(N), bytes)

\* <[u8]>::make_ascii_lowercase: every byte of the slice
slice_make_ascii_lowercase(bytes) ==
    [i \in 1..Len(bytes) |-> to_ascii_lowercase(bytes[i])]

\* <[u8]>::make_ascii_uppercase: every byte of the slice
slice_make_ascii_uppercase(bytes) ==
    [i \in 1..Len(bytes) |-> to_ascii_uppercase(bytes[i])]

\* StrBuf::make_ascii_lowercase
make_ascii_lowercase(buf) ==
    as_mut_slice(buf, slice_make_ascii_lowercase(as_slice(buf)))

\* StrBuf::make_ascii_uppercase
make_ascii_uppercase(buf) ==
    as_mut_slice(buf, slice_make_ascii_uppercase(as_slice(buf)))

\* the left scan of make_trim that stops after one whitespace character
trim_left_scan_once(chars, count) ==
    IF chars = <<>> THEN [count |-> count, chars |-> chars]
    ELSE LET nxt == next_code_point(chars)
             rest == SubSeq(chars, nxt.width + 1, Len(chars)) IN
         IF is_whitespace(nxt.ch)
         THEN [count |-> count + len_utf8(nxt.ch), chars |-> rest]
         ELSE [count |-> count, chars |-> rest]

RECURSIVE trim_left_scan(_, _)
\* make_trim: while let Some(ch) = chars.next() { if whitespace count else break }
\* the count, and what is left in `chars` (the character that ended the
\* loop has been taken out of it)
trim_left_scan(chars, count) ==
    IF chars = <<>> THEN [count |-> count, chars |-> chars]
    ELSE LET nxt == next_code_point(chars)
             rest == SubSeq(chars, nxt.width + 1, Len(chars)) IN
         IF is_whitespace(nxt.ch)
         THEN trim_left_scan(rest, count + len_utf8(nxt.ch))
         ELSE [count |-> count, chars |-> rest]

RECURSIVE trim_right_scan(_, _)
\* for ch in chars.rev() { if whitespace count else break }
trim_right_scan(chars, count) ==
    IF chars = <<>> THEN count
    ELSE LET nxt == next_code_point_reverse(chars) IN
         IF is_whitespace(nxt.ch)
         THEN trim_right_scan(SubSeq(chars, 1, Len(chars) - nxt.width),
                              count + len_utf8(nxt.ch))
         ELSE count

\* usize::saturating_sub
saturating_sub(a, b) == IF a >= b THEN a - b ELSE 0

\* ptr::copy whose source is the destination: nothing moves
ptr_copy_in_place(buf, from, count) == buf

\* ptr::copy(dest.add(from), dest, count) on the data region (a memmove)
ptr_copy(buf, from, count) ==
    WriteBytes(buf, LEN_OFFSET(N), Slice(buf, LEN_OFFSET(N) + from, count))

\* StrBuf::make_trim
make_trim(buf) ==
    LET this == as_str(buf)
        length == Len(this)
        left == trim_left_scan(this, 0)
        trim_left_count == left.count
        trim_right_count == trim_right_scan(left.chars, 0)
        new_len == saturating_sub(saturating_sub(length, trim_left_count),
                                  trim_right_count) IN
    IF new_len # length
    THEN set_len(ptr_copy(buf, trim_left_count, new_len), new_len)
    ELSE buf

RECURSIVE trim_count_left(_, _)
\* make_trim_left: for ch in this.chars() { if whitespace count else break }
trim_count_left(chars, count) ==
    IF chars = <<>> THEN count
    ELSE LET nxt == next_code_point(chars) IN
         IF is_whitespace(nxt.ch)
         THEN trim_count_left(SubSeq(chars, nxt.width + 1, Len(chars)),
                              count + len_utf8(nxt.ch))
         ELSE count

\* StrBuf::make_trim_left
make_trim_left(buf) ==
    LET this == as_str(buf)
        length == Len(this)
        trim_count == trim_count_left(this, 0)
        new_len == saturating_sub(length, trim_count) IN
    set_len(ptr_copy(buf, trim_count, new_len), new_len)

\* StrBuf::make_trim_right
make_trim_right(buf) ==
    LET this == as_str(buf)
        length == Len(this)
        trim_count == trim_right_scan(this, 0) IN
    set_len(buf, saturating_sub(length, trim_count))

\* pop that shortens the content by one byte whatever the character
pop_one_byte(buf) ==
    IF as_str(buf) = <<>> THEN [some |-> FALSE, ch |-> 0, buf |-> buf]
    ELSE LET ch == next_code_point_reverse(as_str(buf)).ch IN
         [some |-> TRUE, ch |-> ch, buf |-> set_len(buf, len(buf) - 1)]

\* StrBuf::pop: the storage after the call and the character, if any
pop(buf) ==
    IF as_str(buf) = <<>> THEN [some |-> FALSE, ch |-> 0, buf |-> buf]
    ELSE LET ch == next_code_point_reverse(as_str(buf)).ch
             new_len == len(buf) - len_utf8(ch) IN
         [some |-> TRUE, ch |-> ch, buf |-> set_len(buf, new_len)]

\* write_str that gives the buffer back as it was when the text did not fit
fmt_write_str_rollback(buf, s) ==
    LET pushed == push_str(buf, s) IN
    IF pushed.size = Len(s) THEN [ok |-> TRUE, buf |-> pushed.buf]
    ELSE [ok |-> FALSE, buf |-> buf]

\* <StrBuf as fmt::Write>::write_str
fmt_write_str(buf, s) ==
    LET pushed == push_str(buf, s) IN
    [ok |-> pushed.size = Len(s), buf |-> pushed.buf]

\* uWrite::write_str that writes what fits, as fmt::Write does
ufmt_write_str_partial(buf, text) ==
    LET pushed == push_str(buf, text) IN
    [ok |-> pushed.size = Len(text), buf |-> pushed.buf]

\* <StrBuf as ufmt_write::uWrite>::write_str
ufmt_write_str(buf, text) ==
    IF remaining(buf) < Len(text) THEN [ok |-> FALSE, buf |-> buf]
    ELSE [ok |-> TRUE, buf |-> push_str_unchecked(buf, text)]

\* <StrBuf as TryFrom<&str>>::try_from
try_from(text, debug_assertions) == from_str_checked(text, debug_assertions)

\* <StrBuf as core::str::FromStr>::from_str
FromStr_from_str(text, debug_assertions) == from_str_checked(text, debug_assertions)

(***************************************************************************)
(* The calls explored.  A behaviour is the life of one buffer: it is made  *)
(* by one of the constructors, then the safe operations act on it.         *)
(***************************************************************************)
\* The padding of tests/push.rs: the buffer filled up to MaxFill bytes
\* short of its capacity.
PADDING == CAPACITY(N) - MaxFill

Padded == PADDING > MaxFill /\ N <= MaxPad

RECURSIVE TextsOf(_)
\* the texts of at most k characters of the alphabet
TextsOf(k) ==
    IF k = 0 THEN {<<>>}
    ELSE LET shorter == TextsOf(k - 1) IN
         shorter \cup {Append(t, c) : t \in shorter, c \in Alphabet}

\* the padding text: '-' repeated
PadText == Repeat(45, PADDING)

\* the texts of the calls: the UTF-8 bytes of each (a &str)
Texts == {Utf8(chs) : chs \in TextsOf(MaxChars)}

\* the texts a buffer is constructed from: the padded contents start as
\* the padding
InitTexts == Texts \cup (IF Padded THEN {PadText} ELSE {})

\* the content lengths explored
InWindow(length) == length <= MaxFill \/ length >= PADDING

\* What the safe interface can read of a buffer: the marker and the bytes
\* [0, len()) of the data region.  The bytes behind them are MaybeUninit
\* to every safe reader, and the state keeps them as not written.
Readable(buf) == SubSeq(buf, 1, LEN_OFFSET(N) + len(buf))

Ret(tag, val) == [tag |-> tag, val |-> val]

\* a call of `op` that took its whole argument (or takes none)
Call(op, ret) == [op |-> op, ret |-> ret, whole |-> TRUE]

\* a call of `op` that did not take its whole argument text
Short(op, ret) == [op |-> op, ret |-> ret, whole |-> FALSE]

Done(call, delta) ==
    [op |-> call.op, ret |-> call.ret, whole |-> call.whole, resized |-> delta # 0]

\* a call that returns: the buffer becomes `buf`
Returns(buf, call) ==
    /\ InWindow(len(buf))
    /\ inner' = Readable(buf)
    /\ pc' = "running"
    /\ last' = Done(call, len(buf) - len(inner))
    /\ UNCHANGED <<N, endian>>

\* a call that panics: no value is returned; the buffer the caller holds
\* (StrBuf is Copy) is as it was
Panics(call) ==
    /\ pc' = "aborted"
    /\ last' = Done(call, 0)
    /\ UNCHANGED <<N, endian, inner>>

\* the buffer a constructor returns
Built(buf, call) ==
    /\ InWindow(len(buf))
    /\ inner = Readable(buf)
    /\ pc = "running"
    /\ last = Done(call, len(buf))

\* a constructor that panics, or that returns Err: there is no buffer
NotBuilt(call) ==
    /\ inner = <<>>
    /\ pc = "aborted"
    /\ last = Done(call, 0)

InitNew == Built(new, Call("new", Ret("Unit", 0)))

InitFromStr(t, debug_assertions) ==
    LET made == from_str(t, debug_assertions) IN
    IF made.panic THEN NotBuilt(Short("from_str", Ret("Panic", 0)))
    ELSE Built(made.buf, Call("from_str", Ret("Unit", 0)))

InitChecked(op, t, made) ==
    IF made.panic THEN NotBuilt(Short(op, Ret("Panic", 0)))
    ELSE IF made.ok THEN Built(made.buf, Call(op, Ret("Ok", 0)))
    ELSE NotBuilt(Short(op, Ret("Err", 0)))

Init ==
    /\ N \in Sizes
    /\ endian \in {e \in Endians : LEN_OFFSET(N) > 1 \/ e = "little"}
    /\ \/ InitNew
       \/ \E t \in InitTexts, d \in BOOLEAN : InitFromStr(t, d)
       \/ \E t \in InitTexts, d \in BOOLEAN :
              InitChecked("from_str_checked", t, from_str_checked(t, d))
       \/ \E t \in InitTexts, d \in BOOLEAN :
              InitChecked("try_from", t, try_from(t, d))
       \/ \E t \in InitTexts, d \in BOOLEAN :
              InitChecked("FromStr::from_str", t, FromStr_from_str(t, d))

\* and(t), in a build with or without debug assertions
And(t) ==
    /\ pc = "running"
    /\ \E made \in {and(inner, t, debug_assertions) : debug_assertions \in BOOLEAN} :
           IF made.panic THEN Panics(Short("and", Ret("Panic", 0)))
           ELSE Returns(made.buf, Call("and", Ret("Unit", 0)))

PushStr(t) ==
    /\ pc = "running"
    /\ LET pushed == push_str(inner, t) IN
       Returns(pushed.buf,
               IF pushed.size = Len(t) THEN Call("push_str", Ret("Size", pushed.size))
               ELSE Short("push_str", Ret("Size", pushed.size)))

FmtWriteStr(t) ==
    /\ pc = "running"
    /\ LET wrote == fmt_write_str(inner, t) IN
       Returns(wrote.buf,
               IF wrote.ok THEN Call("fmt::Write::write_str", Ret("Ok", 0))
               ELSE Short("fmt::Write::write_str", Ret("Err", 0)))

UfmtWriteStr(t) ==
    /\ pc = "running"
    /\ LET wrote == ufmt_write_str(inner, t) IN
       Returns(wrote.buf,
               IF wrote.ok THEN Call("uWrite::write_str", Ret("Ok", 0))
               ELSE Short("uWrite::write_str", Ret("Err", 0)))

Clear ==
    /\ pc = "running"
    /\ Returns(clear(inner), Call("clear", Ret("Unit", 0)))

Empty ==
    /\ pc = "running"
    /\ Returns(empty(inner), Call("empty", Ret("Unit", 0)))

Pop ==
    /\ pc = "running"
    /\ LET popped == pop(inner) IN
       Returns(popped.buf,
               Call("pop",
                    IF popped.some THEN Ret("Some", popped.ch) ELSE Ret("None", 0)))

MakeTrim ==
    /\ pc = "running"
    /\ Returns(make_trim(inner), Call("make_trim", Ret("Unit", 0)))

MakeTrimLeft ==
    /\ pc = "running"
    /\ Returns(make_trim_left(inner), Call("make_trim_left", Ret("Unit", 0)))

MakeTrimRight ==
    /\ pc = "running"
    /\ Returns(make_trim_right(inner), Call("make_trim_right", Ret("Unit", 0)))

MakeAsciiLowercase ==
    /\ pc = "running"
    /\ Returns(make_ascii_lowercase(inner),
               Call("make_ascii_lowercase", Ret("Unit", 0)))

MakeAsciiUppercase ==
    /\ pc = "running"
    /\ Returns(make_ascii_uppercase(inner),
               Call("make_ascii_uppercase", Ret("Unit", 0)))

IntoAsciiLowercase ==
    /\ pc = "running"
    /\ Returns(into_ascii_lowercase(inner),
               Call("into_ascii_lowercase", Ret("Unit", 0)))

IntoAsciiUppercase ==
    /\ pc = "running"
    /\ Returns(into_ascii_uppercase(inner),
               Call("into_ascii_uppercase", Ret("Unit", 0)))

Next ==
    \/ \E t \in Texts : And(t)
    \/ \E t \in Texts : PushStr(t)
    \/ \E t \in Texts : FmtWriteStr(t)
    \/ \E t \in Texts : UfmtWriteStr(t)
    \/ Clear
    \/ Empty
    \/ Pop
    \/ MakeTrim
    \/ MakeTrimLeft
    \/ MakeTrimRight
    \/ MakeAsciiLowercase
    \/ MakeAsciiUppercase
    \/ IntoAsciiLowercase
    \/ IntoAsciiUppercase

Spec == Init /\ [][Next]_vars

(***************************************************************************)
(* Reference notions the claims are stated with.                           *)
(***************************************************************************)
\* the texts of the calls, each given by its characters
TextChars == TextsOf(MaxChars)

\* the width a lead byte announces (0: not a lead byte)
RefWidth(b) ==
    IF b >= 0 /\ b < 128 THEN 1
    ELSE IF b >= 194 /\ b <= 223 THEN 2
    ELSE IF b >= 224 /\ b <= 239 THEN 3
    ELSE IF b >= 240 /\ b <= 244 THEN 4
    ELSE 0

RefCont(b) == b >= 128 /\ b <= 191

\* the second byte of a character is in the range its lead byte allows
RefSecond(lead, b) ==
    /\ lead = 224 => b >= 160
    /\ lead = 237 => b <= 159
    /\ lead = 240 => b >= 144
    /\ lead = 244 => b <= 143

\* bytes[i] starts a well-formed character that ends inside the bytes
RefStarts(bytes, i) ==
    LET w == RefWidth(bytes[i]) IN
    /\ w > 0
    /\ i + w - 1 <= Len(bytes)
    /\ \A j \in (i + 1)..(i + w - 1) : RefCont(bytes[j])
    /\ w > 1 => RefSecond(bytes[i], bytes[i + 1])

\* bytes[i] continues a character that starts at most 3 bytes before it
RefContinues(bytes, i) ==
    \E j \in (IF i > 3 THEN i - 3 ELSE 1)..(i - 1) :
        /\ RefWidth(bytes[j]) > i - j
        /\ \A k \in (j + 1)..i : RefCont(bytes[k])

\* the bytes are well-formed UTF-8
IsUtf8(bytes) ==
    \A i \in 1..Len(bytes) :
        IF RefCont(bytes[i]) THEN RefContinues(bytes, i) ELSE RefStarts(bytes, i)

\* the characters a content can hold: the alphabet, 'R', '-'
RefUniverse == Alphabet \cup {82, 45}

\* the largest number in a set of naturals
Largest(S) == CHOOSE k \in S : \A m \in S : m <= k

\* the byte length of the longest whole-character prefix of the text that
\* is at most `room` bytes long
RefFit(chs, room) ==
    Largest({k \in {Len(Utf8(SubSeq(chs, 1, j))) : j \in 0..Len(chs)} : k <= room})

(***************************************************************************)
(* The claims.                                                             *)
(***************************************************************************)
\* C1: after any sequence of the safe operations the bytes [0, len()) of
\* the data region are well-formed UTF-8.
C1_ContentIsUtf8 ==
    pc = "running" => IsUtf8(as_str(inner))

\* C1 witness: a write that was cut short left room in the buffer: the cut
\* was moved back to a character boundary.
C1_Witness ==
    /\ pc = "running"
    /\ last.op = "push_str"
    /\ ~last.whole
    /\ last.ret.val > 0
    /\ remaining(inner) > 0

\* C2: 0 <= len() <= capacity(), remaining() = capacity() - len() >= 0, and
\* push_str returns at most min(len(s), remaining()) and never takes len()
\* past capacity().
C2_LenWithinCapacity ==
    pc = "running" =>
        /\ len(inner) >= 0
        /\ len(inner) <= CAPACITY(N)
        /\ LEN_OFFSET(N) + len(inner) <= N
        /\ remaining(inner) >= 0
        /\ remaining(inner) + len(inner) = N - LEN_OFFSET(N)
        /\ \A text \in Texts :
               LET pushed == push_str(inner, text) IN
               /\ pushed.size <= Len(text)
               /\ pushed.size <= CAPACITY(N) - len(inner)
               /\ len(pushed.buf) <= CAPACITY(N)

\* C2 witness: a push that filled the buffer to its capacity, cutting its
\* text.
C2_Witness ==
    /\ pc = "running"
    /\ last.op = "push_str"
    /\ ~last.whole
    /\ len(inner) = CAPACITY(N)
    /\ N = 290

\* C3: push_str(s) appends s[0..k] behind the unchanged content and returns
\* k, the largest character boundary of s with k <= min(len(s), remaining());
\* len() grows by k.
C3_PushStrLargestPrefix ==
    pc = "running" =>
        \A chs \in TextChars :
            LET text == Utf8(chs)
                k == RefFit(chs, CAPACITY(N) - len(inner))
                pushed == push_str(inner, text) IN
            /\ pushed.size = k
            /\ as_str(pushed.buf) = as_str(inner) \o SubSeq(text, 1, k)
            /\ len(pushed.buf) = len(inner) + k

\* C3 witness: with capacity 5 and a 3-byte character in the buffer, a push
\* returned 0 although 2 bytes remain (the second push of the example).
C3_Witness ==
    /\ pc = "running"
    /\ N = 6
    /\ last.op = "push_str"
    /\ last.ret.val = 0
    /\ ~last.whole
    /\ as_str(inner) = encode_utf8(12525)

\* C4: from_str_checked, try_from and FromStr::from_str never panic; they
\* return Ok with content t and len() = len(t) exactly when
\* len(t) <= capacity(), and Err otherwise.
C4_CheckedConstructors ==
    last.op \in {"from_str_checked", "try_from", "FromStr::from_str"} =>
        /\ last.ret.tag # "Panic"
        /\ \A text \in Texts, d \in BOOLEAN :
               \A made \in {from_str_checked(text, d), try_from(text, d),
                            FromStr_from_str(text, d)} :
                   /\ ~made.panic
                   /\ made.ok <=> Len(text) <= CAPACITY(N)
                   /\ made.ok => /\ as_str(made.buf) = text
                                 /\ len(made.buf) = Len(text)

\* C4 witness: a checked constructor returned Err(Overflow) for capacity 5.
C4_Witness ==
    /\ N = 6
    /\ last.op = "try_from"
    /\ last.ret.tag = "Err"

\* C5: from_str(t) panics exactly when len(t) > capacity(), in every build;
\* otherwise the buffer holds t.  With N = 0 the empty text is accepted and
\* every other text panics.
C5_StrictConstructor ==
    last.op = "from_str" =>
        /\ last.ret.tag = "Panic" \/ (pc = "running" /\ len(inner) <= CAPACITY(N))
        /\ \A text \in Texts, d \in BOOLEAN :
               LET made == from_str(text, d) IN
               /\ made.panic <=> Len(text) > CAPACITY(N)
               /\ ~made.panic => /\ as_str(made.buf) = text
                                 /\ len(made.buf) = Len(text)
               /\ N = 0 => (made.panic <=> text # <<>>)

\* C5 witness: the strict constructor panicked on a buffer of no capacity.
C5_Witness ==
    /\ N = 0
    /\ last.op = "from_str"
    /\ last.ret.tag = "Panic"
    /\ pc = "aborted"

\* C6: and(text) panics exactly when len(text) > remaining(), in every
\* build and at every link of a chain; otherwise it returns the old content
\* followed by text, len() grown by len(text); new().and(a).and(b) holds
\* a ++ b.
C6_AndPanicsOrAppends ==
    pc = "running" =>
        /\ \A text \in Texts, d \in BOOLEAN :
               LET made == and(inner, text, d) IN
               /\ made.panic <=> Len(text) > CAPACITY(N) - len(inner)
               /\ ~made.panic => /\ as_str(made.buf) = as_str(inner) \o text
                                 /\ len(made.buf) = len(inner) + Len(text)
        /\ last.op = "new" =>
               \A a \in Texts, b \in Texts, d \in BOOLEAN :
                   LET first == and(new, a, d) IN
                   IF Len(a) > CAPACITY(N) THEN first.panic
                   ELSE LET second == and(first.buf, b, d) IN
                        /\ ~first.panic
                        /\ second.panic <=> Len(a) + Len(b) > CAPACITY(N)
                        /\ ~second.panic => as_str(second.buf) = a \o b

\* C6 witness: a later link of a chain panicked: the buffer already held
\* content, less than its capacity.
C6_Witness ==
    /\ pc = "aborted"
    /\ last.op = "and"
    /\ last.ret.tag = "Panic"
    /\ len(inner) > 0
    /\ len(inner) < CAPACITY(N)

\* C7: fmt::Write::write_str(s) returns Ok exactly when all of s fits; on
\* Err the buffer keeps its old content and the largest whole-character
\* prefix of s that fits.
C7_FmtWriteNotRolledBack ==
    pc = "running" =>
        \A chs \in TextChars :
            LET text == Utf8(chs)
                k == RefFit(chs, CAPACITY(N) - len(inner))
                written == fmt_write_str(inner, text) IN
            /\ written.ok <=> Len(text) <= CAPACITY(N) - len(inner)
            /\ as_str(written.buf) = as_str(inner) \o SubSeq(text, 1, k)
            /\ len(written.buf) = len(inner) + k

\* C7 witness: a write into a buffer of capacity 5 failed and left a part of
\* its text in the buffer.
C7_Witness ==
    /\ pc = "running"
    /\ N = 6
    /\ last.op = "fmt::Write::write_str"
    /\ last.ret.tag = "Err"
    /\ last.resized
    /\ len(inner) < CAPACITY(N)

\* the last character of well-formed bytes and its width
RefLast(bytes) ==
    CHOOSE r \in [ch : RefUniverse, width : 1..4] :
        /\ r.width <= Len(bytes)
        /\ encode_utf8(r.ch) = SubSeq(bytes, Len(bytes) - r.width + 1, Len(bytes))

RECURSIVE RefPops(_, _)
\* what k pops of the bytes return: the characters from the end, 0 for None
RefPops(bytes, k) ==
    IF k = 0 THEN <<>>
    ELSE IF bytes = <<>> THEN <<0>>
    ELSE LET r == RefLast(bytes) IN
         <<r.ch>> \o RefPops(SubSeq(bytes, 1, Len(bytes) - r.width), k - 1)

RECURSIVE PopChain(_, _)
\* what k calls of pop() return, up to the first None (0)
PopChain(buf, k) ==
    IF k = 0 THEN <<>>
    ELSE LET popped == pop(buf) IN
         IF ~popped.some THEN <<0>>
         ELSE <<popped.ch>> \o PopChain(popped.buf, k - 1)

\* C8: pop() on a non-empty buffer returns the last character c and leaves
\* the content without c, len() smaller by the width of c (1 to 4); on an
\* empty buffer it returns None and changes nothing; successive pops return
\* the characters in reverse order and then None.
C8_Pop ==
    pc = "running" =>
        LET popped == pop(inner) IN
        /\ as_str(inner) = <<>> =>
               /\ ~popped.some
               /\ popped.buf = inner
        /\ as_str(inner) # <<>> =>
               LET r == RefLast(as_str(inner)) IN
               /\ popped.some
               /\ popped.ch = r.ch
               /\ r.width = Len(encode_utf8(r.ch))
               /\ len(popped.buf) = len(inner) - r.width
               /\ as_str(popped.buf) \o encode_utf8(r.ch) = as_str(inner)
        /\ PopChain(inner, MaxPops) = RefPops(as_str(inner), MaxPops)

\* C8 witness: a pop returned a 4-byte character and left other content.
C8_Witness ==
    /\ pc = "running"
    /\ last.op = "pop"
    /\ last.ret.tag = "Some"
    /\ last.ret.val = 128512
    /\ last.resized
    /\ len(inner) > 0

RefUpper(b) == IF b \in 97..122 THEN b - 32 ELSE b

RefLower(b) == IF b \in 65..90 THEN b + 32 ELSE b

\* the bytes of the length marker
Marker(buf) == SubSeq(buf, 1, LEN_OFFSET(N))

\* C9: each of the four ASCII case conversions maps every content byte on
\* its own, letters changing case and all other bytes staying; len() and
\* the marker stay; into_* gives what make_* gives, whatever the width of
\* the marker.
C9_AsciiCase ==
    pc = "running" =>
        LET old == as_str(inner)
            upper == make_ascii_uppercase(inner)
            lower == make_ascii_lowercase(inner) IN
        /\ as_str(upper) = [i \in 1..Len(old) |-> RefUpper(old[i])]
        /\ as_str(lower) = [i \in 1..Len(old) |-> RefLower(old[i])]
        /\ \A made \in {upper, lower, into_ascii_uppercase(inner),
                        into_ascii_lowercase(inner)} :
               /\ len(made) = len(inner)
               /\ Marker(made) = Marker(inner)
        /\ as_str(into_ascii_uppercase(inner)) = as_str(upper)
        /\ as_str(into_ascii_lowercase(inner)) = as_str(lower)

\* C9 witness: the consuming upper-case conversion acted on a buffer with a
\* word-sized marker that holds a letter and a 2-byte character.
C9_Witness ==
    /\ pc = "running"
    /\ N = 67000
    /\ last.op = "into_ascii_uppercase"
    /\ as_str(inner) = <<82>> \o encode_utf8(160)

\* C10: make_trim applied twice leaves the content and len() that applying
\* it once leaves.
C10_MakeTrimIdempotent ==
    pc = "running" =>
        LET once == make_trim(inner)
            twice == make_trim(once) IN
        /\ as_str(twice) = as_str(once)
        /\ len(twice) = len(once)

\* C10 witness: make_trim removed whitespace and left content.
C10_Witness ==
    /\ pc = "running"
    /\ last.op = "make_trim"
    /\ last.resized
    /\ len(inner) > 0

\* C11: clear() from any state gives len() = 0, an empty as_str() and
\* remaining() = capacity(); a following push_str(s) with
\* len(s) <= capacity() returns len(s) and leaves content s; clear() on an
\* empty buffer changes nothing, and a following pop() returns None.
C11_Clear ==
    pc = "running" =>
        LET cleared == clear(inner) IN
        /\ len(cleared) = 0
        /\ as_str(cleared) = <<>>
        /\ remaining(cleared) = CAPACITY(N)
        /\ \A text \in InitTexts :
               Len(text) <= CAPACITY(N) =>
                   LET pushed == push_str(cleared, text) IN
                   /\ pushed.size = Len(text)
                   /\ as_str(pushed.buf) = text
                   /\ len(pushed.buf) = Len(text)
        /\ len(inner) = 0 => cleared = inner
        /\ ~pop(cleared).some
        /\ pop(cleared).buf = cleared

\* C11 witness: clear() emptied a buffer with a 2-byte marker that held
\* more than 255 bytes.
C11_Witness ==
    /\ pc = "running"
    /\ N = 290
    /\ last.op = "clear"
    /\ last.resized
    /\ len(inner) = 0
    /\ remaining(inner) = 288

\* the desired content sizes within MaxFill of the capacity of the buffer
DesiredNear ==
    {d \in (CAPACITY(N) - MaxFill)..(CAPACITY(N) + MaxFill) : d >= 0}

\* C12: a buffer declared with N = capacity(d) has capacity() = d: the
\* bytes the helper adds to d are the bytes the type reserves for the
\* marker, on both sides of each threshold.
C12_CapacityHelper ==
    \A d \in DesiredNear :
        LET n == capacity(d) IN
        /\ CAPACITY(n) = d
        /\ n - d = LEN_OFFSET(n)
        /\ n = N => StrBuf_capacity = d

\* C12 witness: a buffer declared with capacity(255) holds 255 bytes.
C12_Witness ==
    /\ pc = "running"
    /\ N = capacity(255)
    /\ StrBuf_capacity = 255
    /\ len(inner) = 255

\* C13: creating an empty buffer with an invalid capacity panics:
\* StrBuf::<500>::new() aborts instead of returning a buffer.
C13_InvalidCapacityPanics ==
    (N = 500 /\ last.op = "new") => pc = "aborted"

\* C14: uWrite::write_str(text) is all-or-nothing: with
\* remaining() < len(text) it returns Err(Overflow) and leaves content and
\* len() as they were; otherwise it appends all of text, len() grows by
\* len(text) and it returns Ok.  A write that exactly fills the buffer
\* succeeds and the next non-empty write fails.
C14_UfmtAllOrNothing ==
    pc = "running" =>
        /\ (last.op = "uWrite::write_str" /\ last.ret.tag = "Err") => ~last.resized
        /\ \A text \in Texts :
               LET written == ufmt_write_str(inner, text) IN
               IF CAPACITY(N) - len(inner) < Len(text)
               THEN /\ ~written.ok
                    /\ as_str(written.buf) = as_str(inner)
                    /\ len(written.buf) = len(inner)
               ELSE /\ written.ok
                    /\ as_str(written.buf) = as_str(inner) \o text
                    /\ len(written.buf) = len(inner) + Len(text)
                    /\ Len(text) = CAPACITY(N) - len(inner) =>
                           \A next \in Texts \ {<<>>} :
                               LET again == ufmt_write_str(written.buf, next) IN
                               /\ ~again.ok
                               /\ as_str(again.buf) = as_str(written.buf)

\* C14 witness: with 1 byte in a buffer of capacity 5, a write of a text
\* of more than 4 bytes, whose first character would fit, returned Err.
C14_Witness ==
    /\ pc = "running"
    /\ N = 6
    /\ last.op = "uWrite::write_str"
    /\ last.ret.tag = "Err"
    /\ ~last.resized
    /\ len(inner) = 1

\* the code points with the White_Space property
RefWhiteSpace ==
    (9..13) \cup {32, 133, 160, 5760} \cup (8192..8202)
        \cup {8232, 8233, 8239, 8287, 12288}

\* the character that starts at bytes[i]
RefCharAt(bytes, i) ==
    CHOOSE c \in RefUniverse :
        LET w == Len(encode_utf8(c)) IN
        /\ i + w - 1 <= Len(bytes)
        /\ SubSeq(bytes, i, i + w - 1) = encode_utf8(c)

\* a character that is not whitespace starts at bytes[i]
RefInk(bytes, i) ==
    /\ ~RefCont(bytes[i])
    /\ RefCharAt(bytes, i) \notin RefWhiteSpace

\* the bytes of the maximal leading run of whitespace characters
RefLeading(bytes) ==
    IF \A i \in 1..Len(bytes) : ~RefInk(bytes, i) THEN Len(bytes)
    ELSE (CHOOSE i \in 1..Len(bytes) :
              /\ RefInk(bytes, i)
              /\ \A j \in 1..(i - 1) : ~RefInk(bytes, j)) - 1

\* the bytes of the maximal trailing run of whitespace characters
RefTrailing(bytes) ==
    IF \A i \in 1..Len(bytes) : ~RefInk(bytes, i) THEN Len(bytes)
    ELSE LET i == CHOOSE i \in 1..Len(bytes) :
                      /\ RefInk(bytes, i)
                      /\ \A j \in (i + 1)..Len(bytes) : ~RefInk(bytes, j) IN
         Len(bytes) - (i + Len(encode_utf8(RefCharAt(bytes, i))) - 1)

RefTrimLeft(bytes) == SubSeq(bytes, RefLeading(bytes) + 1, Len(bytes))

RefTrimRight(bytes) == SubSeq(bytes, 1, Len(bytes) - RefTrailing(bytes))

RefTrim(bytes) == RefTrimRight(RefTrimLeft(bytes))

\* C15: make_trim_left removes the maximal leading run of whitespace
\* characters and moves the rest, unmodified, to the start of the data
\* region; make_trim_right removes the maximal trailing run and moves no
\* byte; make_trim removes both and equals make_trim_left followed by
\* make_trim_right; len() drops by the widths of the removed characters; an
\* all-whitespace content becomes empty.
C15_TrimsAsReference ==
    pc = "running" =>
        LET old == as_str(inner)
            left == make_trim_left(inner)
            right == make_trim_right(inner)
            both == make_trim(inner) IN
        /\ as_str(left) = RefTrimLeft(old)
        /\ len(left) = Len(old) - RefLeading(old)
        /\ as_str(right) = RefTrimRight(old)
        /\ len(right) = Len(old) - RefTrailing(old)
        /\ Len(right) = Len(inner)
        /\ \A i \in (LEN_OFFSET(N) + 1)..Len(inner) : right[i] = inner[i]
        /\ as_str(both) = RefTrim(old)
        /\ len(both) = Len(RefTrim(old))
        /\ as_str(both) = as_str(make_trim_right(left))
        /\ len(both) = len(make_trim_right(left))
        /\ RefLeading(old) = Len(old) =>
               /\ len(left) = 0
               /\ len(right) = 0
               /\ len(both) = 0

\* C15 witness: make_trim_left removed leading whitespace and moved a
\* letter and the whitespace behind it to the start of the data region.
C15_Witness ==
    /\ pc = "running"
    /\ N = 6
    /\ last.op = "make_trim_left"
    /\ last.resized
    /\ as_str(inner) = <<114>> \o encode_utf8(160)

\* the width of the marker as the sizes of the storage give it
RefMarkerWidth(n) ==
    IF n = 0 THEN 0
    ELSE IF n <= 256 THEN 1
    ELSE IF n <= 65537 THEN 2
    ELSE SIZE_OF_USIZE

\* the lengths set: up to MaxFill, around 2^8 and 2^16, and the last
\* MaxFill up to the capacity
SetLengths ==
    {L \in (0..MaxFill) \cup (254..257) \cup (65534..65537)
            \cup ((CAPACITY(N) - MaxFill)..CAPACITY(N)) :
        L >= 0 /\ L <= CAPACITY(N)}

\* C16: for every L with 0 <= L <= capacity(), set_len(L) followed by len()
\* returns L: the marker chosen for N holds every length up to the capacity
\* without wrapping modulo 2^8 or 2^16, and writing it changes no content
\* byte.
C16_SetLenThenLen ==
    pc = "running" =>
        /\ LEN_OFFSET(N) = RefMarkerWidth(N)
        /\ LEN_OFFSET(N) = 1 => CAPACITY(N) < 256
        /\ LEN_OFFSET(N) = 2 => CAPACITY(N) < 65536
        /\ \A L \in SetLengths :
               LET marked == set_len(inner, L) IN
               /\ len(marked) = L
               /\ len(const_set_len(inner, L)) = L
               /\ Len(marked) = Len(inner)
               /\ \A i \in (LEN_OFFSET(N) + 1)..Len(inner) : marked[i] = inner[i]

\* C16 witness: a push set the length of a buffer with a one-byte marker to
\* its capacity, 255.
C16_Witness ==
    /\ pc = "running"
    /\ N = 256
    /\ last.op = "push_str"
    /\ last.resized
    /\ len(inner) = 255
    /\ remaining(inner) = 0

====
